---- MODULE Spec2Model ----
(***************************************************************************)
(* A model of the bencode decoder of src/bencode.go: the four readers      *)
(* ReadString, ReadInt, ReadList and ReadDictionary over a bufio.Reader.   *)
(*                                                                         *)
(* The byte source is the pair (input, pos): input is the whole byte       *)
(* sequence behind the reader and pos the number of bytes consumed so far. *)
(* The two leaf readers are operators computed as the code computes them;  *)
(* the two container readers, which call each other and the leaves, run on *)
(* an explicit call stack, one action per statement group of their loops.  *)
(***************************************************************************)
EXTENDS Integers, Sequences, FiniteSets, TLC

(* ------------------------------ bounds -------------------------------- *)

\* Longest input drawn from the whole byte alphabet.
MaxLen == 4

\* Largest number of nodes of a value tree whose encoding is an input.
MaxNodes == 3

\* Largest number of nodes of a value tree whose damaged encoding is an input.
MaxDamaged == 2

(* ------------------------------ bytes --------------------------------- *)

\* The bytes arbitrary inputs are made of: the four markers, the string
\* separator, both signs and two digits.
Bytes == {"i", "e", "l", "d", ":", "-", "+", "0", "1"}

DigitChars == <<"0", "1", "2", "3", "4", "5", "6", "7", "8", "9">>

IsDigit(c) == \E k \in 1..10 : DigitChars[k] = c

DigitVal(c) == (CHOOSE k \in 1..10 : DigitChars[k] = c) - 1

stringSeparator == ":"

\* What ReadByte hands back beside io.EOF: the zero byte.
NUL == "NUL"

(* ------------------------------ errors -------------------------------- *)

NoErr == "nil"
EOF == "io.EOF"
ErrDictInvalid == "invalid dict"
ErrListInvalid == "invalid list"
ErrIntInvalid == "invalid int"
ErrStringInvalid == "invalid string"
\* The *strconv.NumError of a failed Atoi (syntax; a range error needs more
\* digits than any input here has).
ErrNum == "strconv.NumError"

(* ------------------------------ values -------------------------------- *)

\* interface{} values: int, string, []interface{}, map[string]interface{}
\* and the nil interface.
Nil == [t |-> "nil"]
IntV(n) == [t |-> "int", v |-> n]
StrV(s) == [t |-> "str", v |-> s]
ListV(l) == [t |-> "list", v |-> l]
DictV(d) == [t |-> "dict", v |-> d]

EmptyMap == [k \in {} |-> Nil]

(* --------------------------- strconv.Atoi ----------------------------- *)

RECURSIVE ParseDigits(_)
ParseDigits(s) ==
    IF s = <<>> THEN 0
    ELSE ParseDigits(SubSeq(s, 1, Len(s) - 1)) * 10 + DigitVal(s[Len(s)])

\* Atoi accepts one leading '+' or '-' and then needs at least one digit and
\* nothing but digits.
Atoi(s) ==
    LET signed == s # <<>> /\ s[1] \in {"+", "-"}
        ds == IF signed THEN Tail(s) ELSE s
    IN  IF ds = <<>> \/ \E k \in 1..Len(ds) : ~IsDigit(ds[k])
        THEN [val |-> 0, err |-> ErrNum]
        ELSE [val |-> IF signed /\ s[1] = "-" THEN 0 - ParseDigits(ds) ELSE ParseDigits(ds),
              err |-> NoErr]

(* --------------------------- bufio.Reader ----------------------------- *)

\* r.ReadByte(): the next byte, consumed; the zero byte and io.EOF at the end.
ReadByte(in, p) ==
    IF p < Len(in)
    THEN [b |-> in[p + 1], err |-> NoErr, pos |-> p + 1]
    ELSE [b |-> NUL, err |-> EOF, pos |-> p]

\* r.ReadBytes(delim): the bytes up to and including the first delim; at the
\* end of the input, everything that was left together with io.EOF.
ReadBytes(in, p, delim) ==
    LET hits == {k \in (p + 1)..Len(in) : in[k] = delim}
    IN  IF hits = {}
        THEN [data |-> SubSeq(in, p + 1, Len(in)), err |-> EOF, pos |-> Len(in)]
        ELSE LET k == CHOOSE h \in hits : \A g \in hits : h <= g
             IN  [data |-> SubSeq(in, p + 1, k), err |-> NoErr, pos |-> k]

\* r.Peek(1): the next byte, not consumed; an empty slice and io.EOF at the end.
Peek(in, p) ==
    IF p < Len(in)
    THEN [next |-> <<in[p + 1]>>, err |-> NoErr]
    ELSE [next |-> <<>>, err |-> EOF]

(* ---------------------------- ReadString ------------------------------ *)

\* The result of a leaf reader: the value, the error, the new position.
Res(val, err, p) == [val |-> val, err |-> err, pos |-> p]

\* ReadPayload with the loop bound off by one (i <= length): one byte more.
RECURSIVE ReadPayloadOneMore(_, _, _, _)
ReadPayloadOneMore(in, p, length, bs) ==
    IF length < 0 THEN Res(StrV(bs), NoErr, p)
    ELSE LET rb == ReadByte(in, p)
         IN  IF rb.err # NoErr THEN Res(StrV(<<>>), rb.err, rb.pos)
             ELSE ReadPayloadOneMore(in, rb.pos, length - 1, Append(bs, rb.b))

\* The payload loop: length times ReadByte, the first failure returned as is.
RECURSIVE ReadPayload(_, _, _, _)
ReadPayload(in, p, length, bs) ==
    IF length <= 0 THEN Res(StrV(bs), NoErr, p)
    ELSE LET rb == ReadByte(in, p)
         IN  IF rb.err # NoErr THEN Res(StrV(<<>>), rb.err, rb.pos)
             ELSE ReadPayload(in, rb.pos, length - 1, Append(bs, rb.b))

ReadString(in, p) ==
    LET l == ReadBytes(in, p, stringSeparator)
    IN  IF l.err # NoErr THEN Res(StrV(<<>>), l.err, l.pos)
        ELSE LET a == Atoi(SubSeq(l.data, 1, Len(l.data) - 1))
             IN  IF a.err # NoErr THEN Res(StrV(<<>>), a.err, l.pos)
                 ELSE IF a.val < 0 THEN Res(StrV(<<>>), ErrStringInvalid, l.pos)
                 ELSE ReadPayload(in, l.pos, a.val, <<>>)

(* ------------------------------ ReadInt ------------------------------- *)

ReadInt(in, p) ==
    LET first == ReadByte(in, p)
    IN  IF first.b # "i" THEN Res(IntV(0), ErrIntInvalid, first.pos)
        ELSE LET b == ReadBytes(in, first.pos, "e")
             IN  IF b.err # NoErr THEN Res(IntV(0), b.err, b.pos)
                 ELSE LET i == Atoi(SubSeq(b.data, 1, Len(b.data) - 1))
                      IN  IF i.err # NoErr THEN Res(IntV(0), ErrIntInvalid, b.pos)
                          ELSE Res(IntV(i.val), NoErr, b.pos)

(* ------------------------ encodings of values ------------------------- *)

\* A dictionary as it stands in the stream: its pairs in stream order.
PairsV(ps) == [t |-> "pairs", v |-> ps]

LeafInts == {0, 0 - 1, 12}
LeafStrs == {<<>>, <<"e", ":">>, <<"i", "l", "d">>}
Keys == {<<"e">>, <<"d", ":">>}

DistinctKeys(ps) == \A a, b \in 1..Len(ps) : a # b => ps[a][1] # ps[b][1]

\* Value trees of exactly n nodes (TE), sequences of trees of n nodes in all
\* (FE) and sequences of key/tree pairs whose trees have n nodes in all (PE).
RECURSIVE TE(_), FE(_), PE(_)
TE(n) ==
    IF n = 1
    THEN {IntV(i) : i \in LeafInts} \cup {StrV(s) : s \in LeafStrs}
         \cup {ListV(<<>>), PairsV(<<>>)}
    ELSE {ListV(f) : f \in FE(n - 1)}
         \cup {PairsV(ps) : ps \in {q \in PE(n - 1) : DistinctKeys(q)}}
FE(n) ==
    IF n = 0 THEN {<<>>}
    ELSE UNION {{<<t>> \o f : t \in TE(k), f \in FE(n - k)} : k \in 1..n}
PE(n) ==
    IF n = 0 THEN {<<>>}
    ELSE UNION {{<<(<<k, t>>)>> \o f : k \in Keys, t \in TE(j), f \in PE(n - j)} : j \in 1..n}

Trees == UNION {TE(n) : n \in 1..MaxNodes}

RECURSIVE NatDigits(_)
NatDigits(n) ==
    IF n < 10 THEN <<DigitChars[n + 1]>>
    ELSE Append(NatDigits(n \div 10), DigitChars[(n % 10) + 1])

Itoa(n) == IF n < 0 THEN <<"-">> \o NatDigits(0 - n) ELSE NatDigits(n)

\* The bencoding of a tree, by the grammar in the comments of the readers:
\* i<integer>e, <length>:<string>, l<values>e, d<key><value>...e.
RECURSIVE Enc(_), EncSeq(_), EncPairs(_)
Enc(t) ==
    CASE t.t = "int" -> <<"i">> \o Itoa(t.v) \o <<"e">>
      [] t.t = "str" -> Itoa(Len(t.v)) \o <<stringSeparator>> \o t.v
      [] t.t = "list" -> <<"l">> \o EncSeq(t.v) \o <<"e">>
      [] t.t = "pairs" -> <<"d">> \o EncPairs(t.v) \o <<"e">>
EncSeq(f) == IF f = <<>> THEN <<>> ELSE Enc(Head(f)) \o EncSeq(Tail(f))
EncPairs(ps) ==
    IF ps = <<>> THEN <<>>
    ELSE Enc(StrV(Head(ps)[1])) \o Enc(Head(ps)[2]) \o EncPairs(Tail(ps))

\* The value a tree stands for: the pairs of a dictionary become a map.
RECURSIVE ValueOf(_)
ValueOf(t) ==
    CASE t.t = "list" -> ListV([k \in 1..Len(t.v) |-> ValueOf(t.v[k])])
      [] t.t = "pairs" ->
            DictV([key \in {t.v[k][1] : k \in 1..Len(t.v)} |->
                     ValueOf(t.v[CHOOSE k \in 1..Len(t.v) : t.v[k][1] = key][2])])
      [] OTHER -> t

ReaderOf(t) ==
    CASE t.t = "int" -> "ReadInt"
      [] t.t = "str" -> "ReadString"
      [] t.t = "list" -> "ReadList"
      [] t.t = "pairs" -> "ReadDictionary"


\* What is left of an encoding after damage: cut short anywhere, or one byte
\* lost anywhere.
Damaged(e) ==
    {SubSeq(e, 1, k) : k \in 0..(Len(e) - 1)}
    \cup {SubSeq(e, 1, k - 1) \o SubSeq(e, k + 1, Len(e)) : k \in 1..Len(e)}

\* What may follow a value in the source.
Suffixes == {<<>>, <<"e">>, <<"1">>, <<":", "e">>}

Readers == {"ReadInt", "ReadString", "ReadList", "ReadDictionary"}

RECURSIVE SeqsUpTo(_)
SeqsUpTo(n) ==
    IF n = 0 THEN {<<>>}
    ELSE LET shorter == SeqsUpTo(n - 1)
         IN  shorter \cup {Append(q, b) : q \in {x \in shorter : Len(x) = n - 1}, b \in Bytes}

Case(kind, tree, suffix, f, in) ==
    [kind |-> kind, tree |-> tree, suffix |-> suffix, fn |-> f, input |-> in]

\* The calls the model makes: any reader on any short byte sequence, the
\* reader of a value on its encoding followed by a suffix, and the reader of
\* a value on its damaged encoding.
AnyCase(c) ==
    \E f \in Readers, in \in SeqsUpTo(MaxLen) : c = Case("any", Nil, <<>>, f, in)
ValidCase(c) ==
    \E t \in Trees, s \in Suffixes : c = Case("valid", t, s, ReaderOf(t), Enc(t) \o s)
DamagedCase(c) ==
    \E t \in UNION {TE(n) : n \in 1..MaxDamaged} :
        \E in \in Damaged(Enc(t)) : c = Case("damaged", t, <<>>, ReaderOf(t), in)

(* ------------------------------ state --------------------------------- *)

VARIABLES
    input,    \* the bytes behind the bufio.Reader
    pos,      \* how many of them have been consumed
    origin,   \* how the input was made (a Case)
    stack,    \* the frames of the running ReadList / ReadDictionary calls
    ret,      \* what the last call to return returned
    returns,  \* what every ReadList / ReadDictionary call returned, in order
    status    \* "start", "running", "returned" or "panicked"

vars == <<input, pos, origin, stack, ret, returns, status>>

fn == origin.fn

NoRet == [fn |-> "", val |-> Nil, err |-> NoErr, start |-> 0, end |-> 0]

Init ==
    /\ AnyCase(origin) \/ ValidCase(origin) \/ DamagedCase(origin)
    /\ input = origin.input
    /\ pos = 0
    /\ stack = <<>>
    /\ ret = NoRet
    /\ returns = <<>>
    /\ status = "start"

\* The frame of one container call: its accumulated list or map (acc), the
\* key whose value is being read (k), where in the input the call began
\* (start) and where the pass of its loop last begun began (pass).
Frame(f, start) ==
    [fn |-> f, pc |-> "entry", acc |-> <<>>, k |-> <<>>, start |-> start, pass |-> start]

Top == stack[Len(stack)]

At(f, pc) == status = "running" /\ stack # <<>> /\ Top.fn = f /\ Top.pc = pc

SetTop(fr) == [stack EXCEPT ![Len(stack)] = fr]

\* The running call returns (val, err) with the source at p.
Return(val, err, p) ==
    LET r == [fn |-> Top.fn, val |-> val, err |-> err, start |-> Top.start, end |-> p]
    IN  /\ pos' = p
        /\ ret' = r
        /\ returns' = Append(returns, r)
        /\ stack' = SubSeq(stack, 1, Len(stack) - 1)
        /\ status' = IF Len(stack) = 1 THEN "returned" ELSE "running"
        /\ UNCHANGED <<input, origin>>

\* The running call goes on with the source at p and its frame changed.
Step(fr, p) ==
    /\ pos' = p
    /\ stack' = SetTop(fr)
    /\ UNCHANGED <<input, origin, ret, returns, status>>

\* The running call calls container reader f and waits for it.
Call(fr, f, p) ==
    /\ pos' = p
    /\ stack' = Append(SetTop([fr EXCEPT !.pc = "call"]), Frame(f, p))
    /\ UNCHANGED <<input, origin, ret, returns, status>>

(* ------------------------- top-level calls ---------------------------- *)

Leaf(r) ==
    /\ pos' = r.pos
    /\ ret' = [fn |-> fn, val |-> r.val, err |-> r.err, start |-> 0, end |-> r.pos]
    /\ status' = "returned"
    /\ UNCHANGED <<input, origin, stack, returns>>

CallReadInt == status = "start" /\ fn = "ReadInt" /\ Leaf(ReadInt(input, pos))

CallReadString == status = "start" /\ fn = "ReadString" /\ Leaf(ReadString(input, pos))

CallReadList ==
    /\ status = "start" /\ fn = "ReadList"
    /\ stack' = <<Frame("ReadList", pos)>>
    /\ status' = "running"
    /\ UNCHANGED <<input, pos, origin, ret, returns>>

CallReadDictionary ==
    /\ status = "start" /\ fn = "ReadDictionary"
    /\ stack' = <<Frame("ReadDictionary", pos)>>
    /\ status' = "running"
    /\ UNCHANGED <<input, pos, origin, ret, returns>>


(* ------------------------------ ReadList ------------------------------ *)

\* ListAppend putting the new element first.
ListPrepend(l, x) == <<x>> \o l

\* l = append(l, x)
ListAppend(l, x) == Append(l, x)

\* ListFail handing back what was read so far: return l, err.
ListKeep(l) == ListV(l)

\* The list a failing ReadList returns beside the error: return nil, err.
ListFail(l) == Nil

\* What one case of a dispatch switch does: calls a container reader
\* (call), or has read a leaf value on the spot (res).
Calls(f) == [call |-> f, res |-> Res(Nil, NoErr, 0)]
Read(r) == [call |-> "", res |-> r]

\* The cases 'l', 'd', 'i' and default of the switch on the peeked byte.
ListCase(in, p, next) ==
    CASE next = "l" -> Calls("ReadList")
      [] next = "d" -> Calls("ReadDictionary")
      [] next = "i" -> Read(ReadInt(in, p))
      [] OTHER -> Read(ReadString(in, p))

\* The first byte must be 'l'; a failed ReadByte hands back the zero byte.
ListEntry ==
    /\ At("ReadList", "entry")
    /\ LET rb == ReadByte(input, pos)
       IN  IF rb.b # "l"
           THEN Return(Nil, ErrListInvalid, rb.pos)
           ELSE Step([Top EXCEPT !.pc = "loop", !.acc = <<>>], rb.pos)

\* One pass of the loop, up to the call of a container reader if it makes one.
ListLoop ==
    /\ At("ReadList", "loop")
    /\ LET pk == Peek(input, pos)
       IN  IF pk.err # NoErr THEN Return(ListFail(Top.acc), pk.err, pos)
           ELSE IF pk.next[1] = "e"
           THEN Return(ListV(Top.acc), NoErr, ReadByte(input, pos).pos)
           ELSE LET c == ListCase(input, pos, pk.next[1])
                IN  IF c.call # "" THEN Call([Top EXCEPT !.pass = pos], c.call, pos)
                    ELSE IF c.res.err # NoErr
                    THEN Return(ListFail(Top.acc), c.res.err, c.res.pos)
                    ELSE Step([Top EXCEPT !.acc = ListAppend(@, c.res.val), !.pass = pos],
                              c.res.pos)

\* The rest of the pass once the called ReadList / ReadDictionary is back.
ListResume ==
    /\ At("ReadList", "call")
    /\ IF ret.err # NoErr
       THEN Return(ListFail(Top.acc), ret.err, pos)
       ELSE Step([Top EXCEPT !.pc = "loop", !.acc = ListAppend(@, ret.val)], pos)

(* --------------------------- ReadDictionary --------------------------- *)

\* d[k] = v
DictInsert(d, k, v) == [x \in (DOMAIN d) \cup {k} |-> IF x = k THEN v ELSE d[x]]

\* DictCase with the commented-out case 'e' back in: the 'e' is consumed,
\* no reader is called and v stays the nil interface.
DictCaseWithE(in, p, next) ==
    CASE next = "e" -> Read(Res(Nil, NoErr, ReadByte(in, p).pos))
      [] next = "d" -> Calls("ReadDictionary")
      [] next = "i" -> Read(ReadInt(in, p))
      [] next = "l" -> Calls("ReadList")
      [] OTHER -> Read(ReadString(in, p))

\* The cases 'd', 'i', 'l' and default of the switch on the byte peeked
\* after the key; the case 'e' is commented out.
DictCase(in, p, next) ==
    CASE next = "d" -> Calls("ReadDictionary")
      [] next = "i" -> Read(ReadInt(in, p))
      [] next = "l" -> Calls("ReadList")
      [] OTHER -> Read(ReadString(in, p))

\* The first byte must be 'd'.
DictEntry ==
    /\ At("ReadDictionary", "entry")
    /\ LET rb == ReadByte(input, pos)
       IN  IF rb.b # "d"
           THEN Return(Nil, ErrDictInvalid, rb.pos)
           ELSE Step([Top EXCEPT !.pc = "loop", !.acc = EmptyMap], rb.pos)

\* next[0] on the empty slice that Peek returns at the end of the input: the
\* error of the Peek is not looked at, the index is out of range and the
\* goroutine panics; nothing recovers, every frame is unwound.
DictPanic ==
    /\ At("ReadDictionary", "loop")
    /\ Peek(input, pos).next = <<>>
    /\ status' = "panicked"
    /\ stack' = <<>>
    /\ UNCHANGED <<input, pos, origin, ret, returns>>

\* One pass of the loop, up to the call of a container reader if it makes one.
DictLoop ==
    /\ At("ReadDictionary", "loop")
    /\ Peek(input, pos).next # <<>>
    /\ IF Peek(input, pos).next[1] = "e"
       THEN Return(DictV(Top.acc), NoErr, ReadByte(input, pos).pos)
       ELSE LET k == ReadString(input, pos)
                pk == Peek(input, k.pos)
            IN  IF k.err # NoErr THEN Return(Nil, k.err, k.pos)
                ELSE IF pk.err # NoErr THEN Return(Nil, pk.err, k.pos)
                ELSE LET c == DictCase(input, k.pos, pk.next[1])
                     IN  IF c.call # ""
                         THEN Call([Top EXCEPT !.k = k.val.v, !.pass = pos], c.call, k.pos)
                         ELSE IF c.res.err # NoErr THEN Return(Nil, c.res.err, c.res.pos)
                         ELSE Step([Top EXCEPT !.acc = DictInsert(@, k.val.v, c.res.val),
                                               !.pass = pos],
                                   c.res.pos)

\* The rest of the pass once the called ReadDictionary / ReadList is back.
DictResume ==
    /\ At("ReadDictionary", "call")
    /\ IF ret.err # NoErr
       THEN Return(Nil, ret.err, pos)
       ELSE Step([Top EXCEPT !.pc = "loop", !.acc = DictInsert(@, Top.k, ret.val)], pos)

(* --------------------------- specification ---------------------------- *)

Next ==
    \/ CallReadInt
    \/ CallReadString
    \/ CallReadList
    \/ CallReadDictionary
    \/ ListEntry
    \/ ListLoop
    \/ ListResume
    \/ DictEntry
    \/ DictPanic
    \/ DictLoop
    \/ DictResume

Spec == Init /\ [][Next]_vars

(* ====================================================================== *)
(* The claims.                                                            *)
(* ====================================================================== *)

Returned == status = "returned"

\* The bytes of the source not consumed yet.
Rest == SubSeq(input, pos + 1, Len(input))

AllDigits(s) == s # <<>> /\ \A k \in 1..Len(s) : IsDigit(s[k])

\* Where byte c first stands in s, 0 if nowhere.
FirstAt(s, c) ==
    IF \E k \in 1..Len(s) : s[k] = c
    THEN CHOOSE k \in 1..Len(s) : s[k] = c /\ \A j \in 1..(k - 1) : s[j] # c
    ELSE 0

\* The length prefix of a string: the bytes before the first ':'.
Prefix(in) == SubSeq(in, 1, FirstAt(in, stringSeparator) - 1)

\* A malformed length prefix: no ':' in the source at all, or bytes before
\* the first ':' that are no number (empty, or holding a byte that is not a
\* digit), or a negative number.
MalformedPrefix(in) ==
    \/ FirstAt(in, stringSeparator) = 0
    \/ Prefix(in) = <<>>
    \/ \E k \in 1..Len(Prefix(in)) : ~IsDigit(Prefix(in)[k]) /\ Prefix(in)[k] \notin {"+", "-"}
    \/ Prefix(in)[1] = "-" /\ AllDigits(Tail(Prefix(in)))

\* A well-formed length prefix n, the ':', and then fewer than n bytes.
TruncatedPayload(in) ==
    /\ FirstAt(in, stringSeparator) > 0
    /\ AllDigits(Prefix(in))
    /\ Len(in) - FirstAt(in, stringSeparator) < ParseDigits(Prefix(in))

\* C1: IntegerInvalid is the only error ReadInt ever returns: whatever the
\* input, a call of ReadInt that fails fails with ErrIntInvalid, never with
\* io.EOF or another error.
C1_ReadIntFailsOnlyWithIntInvalid ==
    (Returned /\ fn = "ReadInt") => ret.err \in {NoErr, ErrIntInvalid}

\* C2: ReadString fails with StringInvalid whenever the length prefix is
\* malformed (empty or non-numeric, negative, or no ':' before the end of the
\* source), never with io.EOF or a numeric-parse error.
C2_MalformedPrefixIsStringInvalid ==
    (Returned /\ fn = "ReadString" /\ MalformedPrefix(input))
        => ret.err = ErrStringInvalid

\* C3: ReadString on a well-formed length prefix n, a ':' and fewer than n
\* payload bytes fails with io.EOF, and a malformed prefix is never reported
\* by that same error kind.
C3_TruncatedPayloadAndMalformedPrefixDiffer ==
    (Returned /\ fn = "ReadString")
        => /\ TruncatedPayload(input) => ret.err = EOF
           /\ MalformedPrefix(input) => ret.err # EOF

\* The half of C3 that is about the payload alone: a truncated payload is
\* reported by io.EOF.
TruncatedPayloadIsEOF ==
    (Returned /\ fn = "ReadString" /\ TruncatedPayload(input)) => ret.err = EOF

\* C4: when the loop of ReadDictionary peeks with the source exhausted, the
\* call returns nil and the error of the Peek, io.EOF; it does not crash.
C4_DictPeekFailureIsReturned ==
    [][(At("ReadDictionary", "loop") /\ pos = Len(input))
          => /\ status' # "panicked"
             /\ Len(returns') = Len(returns) + 1
             /\ ret'.fn = "ReadDictionary" /\ ret'.val = Nil /\ ret'.err = EOF]_vars

C6_ConsumesExactlyOneValue ==
    (Returned /\ origin.kind = "valid" /\ ret.err = NoErr)
        => (Rest = origin.suffix /\ pos = Len(Enc(origin.tree)))

\* ReadInt has read an integer that an 'e' follows ("i1ee" leaves "e").
C6_Witness ==
    /\ Returned /\ origin.kind = "valid" /\ ret.err = NoErr
    /\ fn = "ReadInt" /\ origin.suffix = <<"e">> /\ Rest = <<"e">>

\* C7: a container comes back only with a nil error and only once its own
\* terminating 'e' is the last byte consumed; an error comes back with a nil
\* container, and so does every call that encloses the failing one, with the
\* same error.
C7_NoPartialContainer ==
    \A i \in 1..Len(returns) :
        LET r == returns[i]
        IN  /\ r.val # Nil =>
                  /\ r.err = NoErr
                  /\ r.val.t = (IF r.fn = "ReadList" THEN "list" ELSE "dict")
                  /\ r.end > r.start + 1
                  /\ input[r.end] = "e"
            /\ r.err # NoErr =>
                  /\ r.val = Nil
                  /\ \A j \in (i + 1)..Len(returns) :
                         returns[j].val = Nil /\ returns[j].err = r.err

\* A nested call has failed after the enclosing call had read elements, and
\* the enclosing call has returned.
C7_Witness ==
    /\ Returned /\ Len(returns) = 2
    /\ returns[1].err # NoErr
    /\ returns[1].start > returns[2].start + 1
    /\ returns[2].val = Nil

\* The input is a dictionary whose first key is followed by the terminator
\* 'e' or by the end of the source.
KeyThenEnd(in) ==
    \E k \in SeqsUpTo(1) :
        LET h == <<"d">> \o Enc(StrV(k))
        IN  /\ Len(in) >= Len(h)
            /\ SubSeq(in, 1, Len(h)) = h
            /\ (Len(in) = Len(h) \/ in[Len(h) + 1] = "e")

ReaderValue(v) == v # Nil /\ v.t \in {"int", "str", "list", "dict"}

IntGrammar(span) ==
    \/ AllDigits(span)
    \/ span # <<>> /\ span[1] = "-" /\ AllDigits(Tail(span))

IntValue(span) ==
    IF span[1] = "-" THEN 0 - ParseDigits(Tail(span)) ELSE ParseDigits(span)

\* C9: ReadInt on 'i', a span and 'e' returns the base-10 number of the span
\* if the span is an optional '-' and one or more digits, and fails with
\* ErrIntInvalid on any other span.
C9_IntGrammarExact ==
    (Returned /\ fn = "ReadInt" /\ input # <<>> /\ input[1] = "i"
        /\ FirstAt(Tail(input), "e") > 0)
        => LET span == SubSeq(Tail(input), 1, FirstAt(Tail(input), "e") - 1)
           IN  IF IntGrammar(span)
               THEN ret.err = NoErr /\ ret.val = IntV(IntValue(span))
               ELSE ret.err = ErrIntInvalid

\* Every pass of a loop that did not return consumed at least one byte: the
\* call about to begin a pass is further into the input than where its
\* last pass began.
PassesConsume == (status = "running" /\ Top.pc = "loop") => pos > Top.pass

\* Each running call began strictly further into the input than the call
\* that made it.
CallsStartFurther ==
    \A i \in 1..(Len(stack) - 1) : stack[i + 1].start > stack[i].start

\* C10: every call ends by returning a value or an error: every pass of the
\* two loops returns or consumes at least one byte, every recursive call
\* starts strictly further into the input, and no call ends in another way
\* than by returning.
C10_EveryCallReturns ==
    /\ PassesConsume
    /\ CallsStartFurther
    /\ status \in {"start", "running", "returned"}

\* What of C10 holds of the loops: the passes consume and the calls nest
\* strictly further into a finite input, so no call runs for ever.
NoCallRunsForever == PassesConsume /\ CallsStartFurther

====
